---------------------------- MODULE Spec2Model ----------------------------
(***************************************************************************)
(* XtabMLParser::parse_bytes (src/src/parser.rs) as a state machine.       *)
(*                                                                         *)
(* One step of the machine is one event read from the quick_xml Reader     *)
(* and handled by the arm of the match that takes it.  The token source    *)
(* is the environment: it yields Start / End / Empty / Text / other        *)
(* events, end-of-input, or an error.  The reader is configured with       *)
(* check_end_names(true), so an End event is only ever delivered for the   *)
(* innermost open element (a mismatch is delivered as an error); the       *)
(* variable `open` is the reader's own stack of open element names.        *)
(*                                                                         *)
(* Strings built from text runs (title, label, cell value, control text)   *)
(* are sequences of text runs, "" being << >>.  Attribute values are       *)
(* strings.  Option<T> is a sequence of length at most one.                *)
(***************************************************************************)
EXTENDS Integers, Sequences, FiniteSets, TLC

VARIABLES
    open,                           \* token source: names of the open elements
    nread,                          \* token source: events delivered so far
    event,                          \* the event just read (read_event_into)
    pc,                             \* "main" | "control" | "done"
    result,                         \* "none" | "Ok" | "XmlParse" | "InvalidStructure" | "panic"
    xtabml,
    path_stack,
    text_buffer,
    current_table,
    current_edge,
    current_group,
    current_data_row,
    current_data_row_series_index,
    current_data_cell,
    current_element,
    current_element_index,
    current_statistic_type,
    control_type,
    depth,
    call                            \* the caller's call of a method of Table

builder == <<current_table, current_edge, current_group, current_data_row,
             current_data_row_series_index, current_data_cell, current_element,
             current_element_index, current_statistic_type>>

parser == <<open, nread, event, pc, result, xtabml, path_stack, text_buffer,
            current_table, current_edge, current_group, current_data_row,
            current_data_row_series_index, current_data_cell, current_element,
            current_element_index, current_statistic_type, control_type, depth>>

vars == <<parser, call>>

---------------------------------------------------------------------------
(* Bounds of the model.                                                    *)

\* events the token source delivers before it must end the input
MaxEvents == 3

\* nesting depth of the elements the token source delivers
MaxOpen == 4

\* the same, for the streams of SpecData
MaxDataEvents == 11

MaxDataOpen == 5

\* the same, for the streams of SpecEdge
MaxEdgeEvents == 14

MaxEdgeOpen == 6

\* the same, for the streams of SpecControl
MaxControlEvents == 8

MaxControlOpen == 4

\* the same, for the streams of SpecAxis
MaxAxisEvents == 8

MaxAxisOpen == 3

\* the same, for the streams of SpecAttr
MaxAttrEvents == 4

MaxAttrOpen == 3

\* the same, for the streams of SpecCapture
MaxCaptureEvents == 7

MaxCaptureOpen == 4

\* the same, for the streams of SpecRow
MaxRowEvents == 8

MaxRowOpen == 4

\* the same, for the streams of SpecTables
MaxTablesEvents == 7

MaxTablesOpen == 3

\* the tables the methods of Table are called on: statistics of a table,
\* data rows of a table, series of a row, cells of a series
MaxQueryStatistics == 2

MaxQueryRows == 2

MaxQuerySeries == 2

MaxQueryCells == 2

\* groups of an edge, elements of a group
MaxQueryGroups == 2

MaxQueryElements == 2

---------------------------------------------------------------------------
(* Option<T>, String and Vec helpers.                                      *)

None == << >>

Some(x) == << x >>

IsSome(o) == o # << >>

Unwrap(o) == o[1]

EmptyString == << >>

Last(s) == s[Len(s)]

\* Vec::pop: removes the last element, no effect on an empty vector
Pop(s) == IF s = << >> THEN s ELSE SubSeq(s, 1, Len(s) - 1)

\* path_stack.iter().any(|p| p == name)
Contains(s, name) == \E i \in 1..Len(s) : s[i] = name

\* the value a `for attr in e.attributes()` loop leaves in a variable that is
\* assigned on every attribute whose key matches: the last match, or the
\* variable's previous value when no attribute matches
AttrValue(attrs, key, default) ==
    IF \E i \in 1..Len(attrs) : attrs[i].key = key
    THEN LET i == CHOOSE j \in 1..Len(attrs) :
                    /\ attrs[j].key = key
                    /\ \A k \in (j+1)..Len(attrs) : attrs[k].key # key
         IN attrs[i].val
    ELSE default

\* String::from_utf8(attr.value.to_vec()) of a value that is not UTF-8: the
\* value an attribute carries when its bytes do not decode
InvalidUtf8 == "#invalid-utf8"

\* the Err item e.attributes() yields for an attribute it cannot read
\* (unquoted value, missing "=", duplicate key)
AttrErr == [key |-> "#err", val |-> "#err"]

\* the attribute each arm with a `for attr in e.attributes()` loop reads
AttrKey(name) ==
    CASE name = "xtab"          -> "version"
      [] name = "table"         -> "name"
      [] name = "control"       -> "type"
      [] name = "edge"          -> "axis"
      [] name = "statistic"     -> "type"
      [] name = "statistictype" -> "name"
      [] OTHER                  -> ""

\* the positions at which the loop over the attributes stops: attr.unwrap()
\* on an Err item, or `?` on the undecodable value of the attribute read
AttrFailures(attrs, key) ==
    {i \in 1..Len(attrs) :
        \/ attrs[i] = AttrErr
        \/ attrs[i].key = key /\ attrs[i].val = InvalidUtf8}

\* how the loop over the attributes ends: "ok" when it runs to its end,
\* "panic" when attr.unwrap() meets an Err item first, "InvalidStructure"
\* when the undecodable value of the attribute read comes first
AttrOutcome(attrs, key) ==
    IF AttrFailures(attrs, key) = {}
    THEN "ok"
    ELSE LET first == CHOOSE i \in AttrFailures(attrs, key) :
                          \A j \in AttrFailures(attrs, key) : i <= j
         IN IF attrs[first] = AttrErr THEN "panic" ELSE "InvalidStructure"

---------------------------------------------------------------------------
(* The document model (src/src/types.rs).                                  *)

XtabML(version, controls, tables) ==
    [version |-> version, date |-> None, time |-> None, origin |-> None,
     user |-> None, languages |-> << >>, control_types |-> << >>,
     statistic_types |-> << >>, controls |-> controls, tables |-> tables]

Control(type, text) == [type |-> type, text |-> text]

Table(name) ==
    [name |-> name, title |-> EmptyString, controls |-> << >>,
     row_edge |-> None, column_edge |-> None, statistics |-> << >>,
     data |-> [rows |-> << >>]]

Edge(axis) == [axis |-> axis, groups |-> << >>]

Group == [elements |-> << >>, summaries |-> << >>]

Element == [text |-> EmptyString, index |-> None]

Summary(text) == [text |-> text]

Statistic(type) == [type |-> type]

StatisticType == [name |-> "", text |-> EmptyString]

DataRowSeries(stat) == [statistic |-> Some(stat), cells |-> << >>]

DataRow(statistics) ==
    [data_row_series |-> [i \in 1..Len(statistics) |-> DataRowSeries(statistics[i])]]

DataCell(value, is_missing) == [value |-> value, is_missing |-> is_missing]

DataCellDefault == DataCell(None, FALSE)

---------------------------------------------------------------------------
(* The methods of Table (src/src/types.rs).  A method's outcome is what it *)
(* returns, or NoSuchField when it reads a field that the struct of the    *)
(* value it reads it from does not declare.                                *)

Returns(value) == [defined |-> TRUE, value |-> value]

NoSuchField == [defined |-> FALSE]

\* row.cells, for a row of self.data.rows: DataRow declares data_row_series
HasCells(row) == "cells" \in DOMAIN row

shape(table) ==
    LET rows == Len(table.data.rows)
    IN  IF rows > 0
        THEN IF HasCells(table.data.rows[1])
             THEN Returns(<<rows, Len(table.data.rows[1].cells)>>)
             ELSE NoSuchField
        ELSE Returns(<<rows, 0>>)

\* the closure of get_statistic_data: a missing cell gives None
CellValue(cell) == IF cell.is_missing THEN None ELSE cell.value

\* the rows get_statistic_data visits, by 0-based index: those with
\* row_idx % statistics_count == statistic_index
RowsOfStatistic(table, statistic_index) ==
    LET statistics_count == Len(table.statistics)
    IN  SelectSeq([k \in 1..Len(table.data.rows) |-> k],
                  LAMBDA k : (k - 1) % statistics_count = statistic_index)

get_statistic_data(table, statistic_index) ==
    IF statistic_index >= Len(table.statistics)
    THEN Returns(None)
    ELSE LET visited == RowsOfStatistic(table, statistic_index)
             row(j)  == table.data.rows[visited[j]]
         IN  IF \E j \in 1..Len(visited) : ~HasCells(row(j))
             THEN NoSuchField
             ELSE Returns(Some([j \in 1..Len(visited) |->
                                  [c \in 1..Len(row(j).cells) |->
                                      CellValue(row(j).cells[c])]]))

\* row_labels looking at the last group of the row edge
row_labels_OfLastGroup(table) ==
    IF IsSome(table.row_edge) /\ Unwrap(table.row_edge).groups # << >>
    THEN LET g == Last(Unwrap(table.row_edge).groups)
         IN  [k \in 1..Len(g.elements) |-> g.elements[k].text]
    ELSE << >>

row_labels(table) ==
    IF IsSome(table.row_edge) /\ Unwrap(table.row_edge).groups # << >>
    THEN LET g == Unwrap(table.row_edge).groups[1]
         IN  [k \in 1..Len(g.elements) |-> g.elements[k].text]
    ELSE << >>

column_labels(table) ==
    IF IsSome(table.column_edge) /\ Unwrap(table.column_edge).groups # << >>
    THEN LET g == Unwrap(table.column_edge).groups[1]
         IN  [k \in 1..Len(g.elements) |-> g.elements[k].text]
    ELSE << >>

---------------------------------------------------------------------------
(* The events of the token source (quick_xml::events::Event, or an Err).   *)

NoEvent == [kind |-> "none", name |-> "", attrs |-> << >>]

StartEvent(name, attrs) == [kind |-> "Start", name |-> name, attrs |-> attrs]

EndEvent(name) == [kind |-> "End", name |-> name, attrs |-> << >>]

EmptyEvent(name, attrs) == [kind |-> "Empty", name |-> name, attrs |-> attrs]

\* a text run; kind BadText for a run that does not unescape
TextEvent(run, unescapes) ==
    [kind |-> IF unescapes THEN "Text" ELSE "BadText", name |-> run,
     attrs |-> << >>]

\* comment, CDATA, declaration, processing instruction, doctype
OtherEvent == [kind |-> "Other", name |-> "", attrs |-> << >>]

EofEvent == [kind |-> "Eof", name |-> "", attrs |-> << >>]

ErrEvent == [kind |-> "Err", name |-> "", attrs |-> << >>]

\* a call of a method of Table: the table it is called on, its argument and
\* what it returned; method "none" before the call
Call(method, table, index, returned) ==
    [method |-> method, self |-> table, index |-> index, returned |-> returned]

\* reader.read_event_into(&mut buf) delivering ev; a step of parse_bytes
\* leaves the calls of the Table methods alone
Read(ev) ==
    /\ event' = ev
    /\ nread' = nread + 1
    /\ UNCHANGED call

---------------------------------------------------------------------------
(* Initial state: the locals of parse_bytes before the first event.        *)

\* parse_bytes before its first event
Idle ==
    /\ open = << >>
    /\ nread = 0
    /\ event = NoEvent
    /\ pc = "main"
    /\ result = "none"
    /\ xtabml = XtabML("", << >>, << >>)
    /\ path_stack = << >>
    /\ text_buffer = EmptyString
    /\ current_table = None
    /\ current_edge = None
    /\ current_group = None
    /\ current_data_row = None
    /\ current_data_row_series_index = 0
    /\ current_data_cell = None
    /\ current_element = None
    /\ current_element_index = 0
    /\ current_statistic_type = None
    /\ control_type = ""
    /\ depth = 0

Init ==
    /\ Idle
    /\ call = Call("none", None, 0, None)

---------------------------------------------------------------------------
(* The ways parse_bytes ends.                                              *)

\* Every return ends parse_bytes: its locals go out of scope, which the model
\* shows as their initial values; Ok(xtabml) moves the document to the caller,
\* an Err leaves no document.
Dropped ==
    /\ path_stack' = << >>
    /\ text_buffer' = EmptyString
    /\ current_table' = None
    /\ current_edge' = None
    /\ current_group' = None
    /\ current_data_row' = None
    /\ current_data_row_series_index' = 0
    /\ current_data_cell' = None
    /\ current_element' = None
    /\ current_element_index' = 0
    /\ current_statistic_type' = None
    /\ control_type' = ""
    /\ depth' = 0

ReturnOk ==
    /\ pc' = "done"
    /\ result' = "Ok"
    /\ UNCHANGED xtabml
    /\ Dropped

\* ReturnErr reporting every failure as a missing element
ReturnErr_AsMissingElement(kind) ==
    /\ pc' = "done"
    /\ result' = "MissingElement"
    /\ xtabml' = XtabML("", << >>, << >>)
    /\ Dropped

ReturnErr(kind) ==
    /\ pc' = "done"
    /\ result' = kind
    /\ xtabml' = XtabML("", << >>, << >>)
    /\ Dropped

\* attr.unwrap() on an Err item: the thread panics and parse_bytes returns
\* no Result
Panic ==
    /\ pc' = "done"
    /\ result' = "panic"
    /\ xtabml' = XtabML("", << >>, << >>)
    /\ Dropped

---------------------------------------------------------------------------
(* Ok(Event::Start(e)): the arms of the match on the element name.         *)

StartXtab(attrs) ==
    /\ xtabml' = [xtabml EXCEPT !.version = AttrValue(attrs, "version", @)]
    /\ UNCHANGED <<text_buffer, builder, pc, control_type, depth>>

StartTable(attrs) ==
    /\ current_table' =
          Some(Table(IF \E i \in 1..Len(attrs) : attrs[i].key = "name"
                     THEN Some(AttrValue(attrs, "name", ""))
                     ELSE None))
    /\ UNCHANGED <<xtabml, text_buffer, current_edge, current_group,
                   current_data_row, current_data_row_series_index,
                   current_data_cell, current_element, current_element_index,
                   current_statistic_type, pc, control_type, depth>>

\* the control arm up to the capture loop: read the type, clear the buffer,
\* depth = 1; the loop itself is the Capture* actions below
\* StartControl without the clear of the accumulator before the capture
StartControl_KeepsText(attrs) ==
    /\ control_type' = AttrValue(attrs, "type", "")
    /\ depth' = 1
    /\ pc' = "control"
    /\ UNCHANGED <<xtabml, text_buffer, builder>>

StartControl(attrs) ==
    /\ control_type' = AttrValue(attrs, "type", "")
    /\ text_buffer' = EmptyString
    /\ depth' = 1
    /\ pc' = "control"
    /\ UNCHANGED <<xtabml, builder>>

StartEdge(attrs) ==
    /\ current_edge' = Some(Edge(AttrValue(attrs, "axis", "")))
    /\ UNCHANGED <<xtabml, text_buffer, current_table, current_group,
                   current_data_row, current_data_row_series_index,
                   current_data_cell, current_element, current_element_index,
                   current_statistic_type, pc, control_type, depth>>

StartGroup ==
    /\ current_group' = Some(Group)
    /\ current_element' = None
    /\ current_element_index' = 0
    /\ UNCHANGED <<xtabml, text_buffer, current_table, current_edge,
                   current_data_row, current_data_row_series_index,
                   current_data_cell, current_statistic_type,
                   pc, control_type, depth>>

StartElement ==
    /\ current_element' = Some(Element)
    /\ UNCHANGED <<xtabml, text_buffer, current_table, current_edge,
                   current_group, current_data_row,
                   current_data_row_series_index, current_data_cell,
                   current_element_index, current_statistic_type,
                   pc, control_type, depth>>

StartSummary ==
    /\ text_buffer' = EmptyString
    /\ UNCHANGED <<xtabml, builder, pc, control_type, depth>>

\* StartR allocating a row without series, whatever the table declares
StartR_RowWithoutSeries ==
    /\ IF IsSome(current_table)
       THEN /\ current_data_row' = Some(DataRow(<< >>))
            /\ current_data_row_series_index' = 0
       ELSE UNCHANGED <<current_data_row, current_data_row_series_index>>
    /\ UNCHANGED <<xtabml, text_buffer, current_table, current_edge,
                   current_group, current_data_cell, current_element,
                   current_element_index, current_statistic_type,
                   pc, control_type, depth>>

StartR ==
    /\ IF IsSome(current_table)
       THEN /\ current_data_row' = Some(DataRow(Unwrap(current_table).statistics))
            /\ current_data_row_series_index' = 0
       ELSE UNCHANGED <<current_data_row, current_data_row_series_index>>
    /\ UNCHANGED <<xtabml, text_buffer, current_table, current_edge,
                   current_group, current_data_cell, current_element,
                   current_element_index, current_statistic_type,
                   pc, control_type, depth>>

StartV ==
    /\ current_data_cell' = Some(DataCellDefault)
    /\ UNCHANGED <<xtabml, text_buffer, current_table, current_edge,
                   current_group, current_data_row,
                   current_data_row_series_index, current_element,
                   current_element_index, current_statistic_type,
                   pc, control_type, depth>>

StartX ==
    /\ current_data_cell' =
          IF IsSome(current_data_cell)
          THEN Some([Unwrap(current_data_cell) EXCEPT !.is_missing = TRUE,
                                                      !.value = None])
          ELSE current_data_cell
    /\ UNCHANGED <<xtabml, text_buffer, current_table, current_edge,
                   current_group, current_data_row,
                   current_data_row_series_index, current_element,
                   current_element_index, current_statistic_type,
                   pc, control_type, depth>>

\* StartStatisticType with the statistic type entered in the document's list
StartStatisticType_ListsType(attrs) ==
    /\ xtabml' = [xtabml EXCEPT
                     !.version = AttrValue(attrs, "name", @),
                     !.statistic_types = Append(@, StatisticType)]
    /\ current_statistic_type' = Some(StatisticType)
    /\ UNCHANGED <<text_buffer, current_table, current_edge, current_group,
                   current_data_row, current_data_row_series_index,
                   current_data_cell, current_element, current_element_index,
                   pc, control_type, depth>>

StartStatisticType(attrs) ==
    /\ xtabml' = [xtabml EXCEPT !.version = AttrValue(attrs, "name", @)]
    /\ current_statistic_type' = Some(StatisticType)
    /\ UNCHANGED <<text_buffer, current_table, current_edge, current_group,
                   current_data_row, current_data_row_series_index,
                   current_data_cell, current_element, current_element_index,
                   pc, control_type, depth>>

\* the arms with an empty body: "c", and `_` (statistic, t, data, date, ...)
StartOther ==
    UNCHANGED <<xtabml, text_buffer, builder, pc, control_type, depth>>

StartArm(name, attrs) ==
    CASE name = "xtab"          -> StartXtab(attrs)
      [] name = "table"         -> StartTable(attrs)
      [] name = "control"       -> StartControl(attrs)
      [] name = "edge"          -> StartEdge(attrs)
      [] name = "group"         -> StartGroup
      [] name = "element"       -> StartElement
      [] name = "summary"       -> StartSummary
      [] name = "r"             -> StartR
      [] name = "v"             -> StartV
      [] name = "x"             -> StartX
      [] name = "statistictype" -> StartStatisticType(attrs)
      [] OTHER                  -> StartOther

\* the arms that loop over e.attributes()
StartReadsAttrs(name) ==
    name \in {"xtab", "table", "control", "edge", "statistictype"}

Start(name, attrs) ==
    /\ pc = "main"
    /\ open' = Append(open, name)
    /\ Read(StartEvent(name, attrs))
    /\ LET outcome == IF StartReadsAttrs(name)
                      THEN AttrOutcome(attrs, AttrKey(name))
                      ELSE "ok"
       IN  CASE outcome = "ok" ->
                   /\ path_stack' = Append(path_stack, name)
                   /\ StartArm(name, attrs)
                   /\ UNCHANGED result
             [] outcome = "panic" -> Panic
             [] OTHER -> ReturnErr(outcome)

---------------------------------------------------------------------------
(* Ok(Event::End(e)): the arms of the match on the element name.  Every    *)
(* arm reads path_stack after the pop, so each takes the popped stack.     *)

\* EndT writing the title of the open table at every close of a text
\* holder, whether or not the table has a title
EndT_RewritesTitle(stack) ==
    /\ text_buffer' = EmptyString
    /\ IF IsSome(current_table) /\ Contains(stack, "table")
       THEN current_table' =
                Some([Unwrap(current_table) EXCEPT !.title = text_buffer])
       ELSE UNCHANGED current_table
    /\ UNCHANGED <<xtabml, current_edge, current_group, current_data_row,
                   current_data_row_series_index, current_data_cell,
                   current_element, current_element_index,
                   current_statistic_type>>

EndT(stack) ==
    /\ text_buffer' = EmptyString
    /\ IF IsSome(current_table)
       THEN IF Unwrap(current_table).title = EmptyString /\ Contains(stack, "table")
            THEN /\ current_table' =
                      Some([Unwrap(current_table) EXCEPT !.title = text_buffer])
                 /\ UNCHANGED <<current_element, current_element_index,
                                current_statistic_type>>
            ELSE IF IsSome(current_element)
            THEN /\ current_element' =
                      Some([Unwrap(current_element) EXCEPT
                               !.text = text_buffer,
                               !.index = Some(current_element_index)])
                 /\ current_element_index' = current_element_index + 1
                 /\ UNCHANGED <<current_table, current_statistic_type>>
            ELSE IF IsSome(current_statistic_type)
            THEN /\ current_statistic_type' =
                      Some([Unwrap(current_statistic_type) EXCEPT
                               !.text = text_buffer])
                 /\ UNCHANGED <<current_table, current_element,
                                current_element_index>>
            ELSE UNCHANGED <<current_table, current_element,
                             current_element_index, current_statistic_type>>
       ELSE UNCHANGED <<current_table, current_element,
                        current_element_index, current_statistic_type>>
    /\ UNCHANGED <<xtabml, current_edge, current_group, current_data_row,
                   current_data_row_series_index, current_data_cell>>

EndElement ==
    /\ IF IsSome(current_group) /\ IsSome(current_element)
       THEN /\ current_group' =
                 Some([Unwrap(current_group) EXCEPT
                          !.elements = Append(@, Unwrap(current_element))])
            /\ current_element' = None
       ELSE UNCHANGED <<current_group, current_element>>
    /\ UNCHANGED <<xtabml, text_buffer, current_table, current_edge,
                   current_data_row, current_data_row_series_index,
                   current_data_cell, current_element_index,
                   current_statistic_type>>

EndSummary ==
    /\ IF text_buffer # EmptyString
       THEN /\ current_group' =
                 IF IsSome(current_group)
                 THEN Some([Unwrap(current_group) EXCEPT
                               !.summaries = Append(@, Summary(text_buffer))])
                 ELSE current_group
            /\ text_buffer' = EmptyString
       ELSE UNCHANGED <<current_group, text_buffer>>
    /\ UNCHANGED <<xtabml, current_table, current_edge, current_data_row,
                   current_data_row_series_index, current_data_cell,
                   current_element, current_element_index,
                   current_statistic_type>>

EndGroup ==
    /\ current_group' = None
    /\ current_edge' =
          IF IsSome(current_group) /\ IsSome(current_edge)
          THEN Some([Unwrap(current_edge) EXCEPT
                        !.groups = Append(@, Unwrap(current_group))])
          ELSE current_edge
    /\ UNCHANGED <<xtabml, text_buffer, current_table, current_data_row,
                   current_data_row_series_index, current_data_cell,
                   current_element, current_element_index,
                   current_statistic_type>>

\* EndEdge with every axis other than "r" taken for the column axis
EndEdge_DefaultsToColumn ==
    /\ current_edge' = None
    /\ current_table' =
          IF IsSome(current_edge) /\ IsSome(current_table)
          THEN IF Unwrap(current_edge).axis = "r"
               THEN Some([Unwrap(current_table) EXCEPT !.row_edge = current_edge])
               ELSE Some([Unwrap(current_table) EXCEPT !.column_edge = current_edge])
          ELSE current_table
    /\ UNCHANGED <<xtabml, text_buffer, current_group, current_data_row,
                   current_data_row_series_index, current_data_cell,
                   current_element, current_element_index,
                   current_statistic_type>>

\* EndEdge storing an edge only in a slot that holds none: the first edge
\* of an axis is kept
EndEdge_KeepsFirstOfAxis ==
    /\ current_edge' = None
    /\ current_table' =
          IF IsSome(current_edge) /\ IsSome(current_table)
          THEN IF Unwrap(current_edge).axis = "r"
                    /\ Unwrap(current_table).row_edge = None
               THEN Some([Unwrap(current_table) EXCEPT !.row_edge = current_edge])
               ELSE IF Unwrap(current_edge).axis = "c"
                         /\ Unwrap(current_table).column_edge = None
               THEN Some([Unwrap(current_table) EXCEPT !.column_edge = current_edge])
               ELSE current_table
          ELSE current_table
    /\ UNCHANGED <<xtabml, text_buffer, current_group, current_data_row,
                   current_data_row_series_index, current_data_cell,
                   current_element, current_element_index,
                   current_statistic_type>>

EndEdge ==
    /\ current_edge' = None
    /\ current_table' =
          IF IsSome(current_edge) /\ IsSome(current_table)
          THEN IF Unwrap(current_edge).axis = "r"
               THEN Some([Unwrap(current_table) EXCEPT !.row_edge = current_edge])
               ELSE IF Unwrap(current_edge).axis = "c"
               THEN Some([Unwrap(current_table) EXCEPT !.column_edge = current_edge])
               ELSE current_table
          ELSE current_table
    /\ UNCHANGED <<xtabml, text_buffer, current_group, current_data_row,
                   current_data_row_series_index, current_data_cell,
                   current_element, current_element_index,
                   current_statistic_type>>

EndC ==
    /\ current_data_row_series_index' = current_data_row_series_index + 1
    /\ UNCHANGED <<xtabml, text_buffer, current_table, current_edge,
                   current_group, current_data_row, current_data_cell,
                   current_element, current_element_index,
                   current_statistic_type>>

\* ClosedCell with `cell.is_missing = false` left out
ClosedCell_KeepsMissingFlag(cell, text) ==
    IF text # EmptyString
    THEN [cell EXCEPT !.value = Some(text)]
    ELSE cell

\* the cell End v completes: value and flag set from a non-empty buffer
ClosedCell(cell, text) ==
    IF text # EmptyString
    THEN [cell EXCEPT !.value = Some(text), !.is_missing = FALSE]
    ELSE cell

\* PushCell with a cursor past the last series taken for the last series
PushCell_ClampsToLastSeries(row, index, cell) ==
    IF index < Len(row.data_row_series)
    THEN [row EXCEPT !.data_row_series[index + 1].cells = Append(@, cell)]
    ELSE IF row.data_row_series # << >>
    THEN [row EXCEPT !.data_row_series[Len(row.data_row_series)].cells =
                         Append(@, cell)]
    ELSE row

\* row.data_row_series[index].cells.push(cell) under its range check
\* (usize index, 0-based; the sequences here are 1-based)
PushCell(row, index, cell) ==
    IF index < Len(row.data_row_series)
    THEN [row EXCEPT !.data_row_series[index + 1].cells = Append(@, cell)]
    ELSE row

EndV ==
    /\ current_data_cell' = None
    /\ current_data_row' =
          IF IsSome(current_data_cell) /\ IsSome(current_data_row)
          THEN Some(PushCell(Unwrap(current_data_row),
                             current_data_row_series_index,
                             ClosedCell(Unwrap(current_data_cell), text_buffer)))
          ELSE current_data_row
    /\ text_buffer' = EmptyString
    /\ UNCHANGED <<xtabml, current_table, current_edge, current_group,
                   current_data_row_series_index, current_element,
                   current_element_index, current_statistic_type>>

EndR ==
    /\ current_data_row' = None
    /\ current_table' =
          IF IsSome(current_data_row) /\ IsSome(current_table)
          THEN Some([Unwrap(current_table) EXCEPT
                        !.data.rows = Append(@, Unwrap(current_data_row))])
          ELSE current_table
    /\ UNCHANGED <<xtabml, text_buffer, current_edge, current_group,
                   current_data_row_series_index, current_data_cell,
                   current_element, current_element_index,
                   current_statistic_type>>

\* EndTable putting the table first in the document instead of last
EndTable_PutsTableFirst ==
    /\ current_table' = None
    /\ xtabml' =
          IF IsSome(current_table)
          THEN [xtabml EXCEPT !.tables = <<Unwrap(current_table)>> \o @]
          ELSE xtabml
    /\ UNCHANGED <<text_buffer, current_edge, current_group, current_data_row,
                   current_data_row_series_index, current_data_cell,
                   current_element, current_element_index,
                   current_statistic_type>>

EndTable ==
    /\ current_table' = None
    /\ xtabml' =
          IF IsSome(current_table)
          THEN [xtabml EXCEPT !.tables = Append(@, Unwrap(current_table))]
          ELSE xtabml
    /\ UNCHANGED <<text_buffer, current_edge, current_group, current_data_row,
                   current_data_row_series_index, current_data_cell,
                   current_element, current_element_index,
                   current_statistic_type>>

\* the `_` arm (only prints): xtab, statistic, x, statistictype, data, ...
EndOther ==
    UNCHANGED <<xtabml, text_buffer, builder>>

EndArm(name, stack) ==
    CASE name = "t"       -> EndT(stack)
      [] name = "element" -> EndElement
      [] name = "summary" -> EndSummary
      [] name = "group"   -> EndGroup
      [] name = "edge"    -> EndEdge
      [] name = "c"       -> EndC
      [] name = "v"       -> EndV
      [] name = "r"       -> EndR
      [] name = "table"   -> EndTable
      [] OTHER            -> EndOther

\* the reader delivers End only for its innermost open element
End ==
    /\ pc = "main"
    /\ open # << >>
    /\ open' = Pop(open)
    /\ Read(EndEvent(Last(open)))
    /\ path_stack' = Pop(path_stack)
    /\ EndArm(Last(open), Pop(path_stack))
    /\ UNCHANGED <<pc, result, control_type, depth>>

---------------------------------------------------------------------------
(* Ok(Event::Text(e)) in the main loop.  A run that unescapes is appended; *)
(* for a run that does not, the error's message is appended instead.       *)

\* e.to_string() of the unescape error, as one run
UnescapeErrorText == "#unescape-error"

Text(run, unescapes) ==
    /\ pc = "main"
    /\ Read(TextEvent(run, unescapes))
    /\ text_buffer' = Append(text_buffer,
                             IF unescapes THEN run ELSE UnescapeErrorText)
    /\ UNCHANGED <<open, pc, result, xtabml, path_stack, builder,
                   control_type, depth>>

---------------------------------------------------------------------------
(* Ok(Event::Empty(e)): never touches path_stack.                          *)

EmptyStatistic(attrs) ==
    /\ current_table' =
          IF IsSome(current_table)
          THEN Some([Unwrap(current_table) EXCEPT
                        !.statistics =
                            Append(@, Statistic(AttrValue(attrs, "type", "")))])
          ELSE current_table
    /\ UNCHANGED <<current_edge, current_group, current_data_row,
                   current_data_row_series_index, current_data_cell,
                   current_element, current_element_index,
                   current_statistic_type>>

\* EmptyX pushing the default cell in place of the missing cell
EmptyX_PushesDefaultCell ==
    /\ current_data_row' =
          IF IsSome(current_data_row)
          THEN Some(PushCell(Unwrap(current_data_row),
                             current_data_row_series_index,
                             DataCellDefault))
          ELSE current_data_row
    /\ UNCHANGED <<current_table, current_edge, current_group,
                   current_data_row_series_index, current_data_cell,
                   current_element, current_element_index,
                   current_statistic_type>>

EmptyX ==
    /\ current_data_row' =
          IF IsSome(current_data_row)
          THEN Some(PushCell(Unwrap(current_data_row),
                             current_data_row_series_index,
                             DataCell(None, TRUE)))
          ELSE current_data_row
    /\ UNCHANGED <<current_table, current_edge, current_group,
                   current_data_row_series_index, current_data_cell,
                   current_element, current_element_index,
                   current_statistic_type>>

EmptyOther ==
    UNCHANGED builder

EmptyArm(name, attrs) ==
    CASE name = "statistic" -> EmptyStatistic(attrs)
      [] name = "x"         -> EmptyX
      [] OTHER              -> EmptyOther

\* the statistic arm loops over e.attributes() when a table is open
EmptyReadsAttrs(name) ==
    name = "statistic" /\ IsSome(current_table)

\* Empty pushing the element name as Start does
Empty_Pushes(name, attrs) ==
    /\ pc = "main"
    /\ Read(EmptyEvent(name, attrs))
    /\ UNCHANGED open
    /\ LET outcome == IF EmptyReadsAttrs(name)
                      THEN AttrOutcome(attrs, AttrKey(name))
                      ELSE "ok"
       IN  CASE outcome = "ok" ->
                   /\ path_stack' = Append(path_stack, name)
                   /\ EmptyArm(name, attrs)
                   /\ UNCHANGED <<pc, result, xtabml, text_buffer,
                                  control_type, depth>>
             [] outcome = "panic" -> Panic
             [] OTHER -> ReturnErr(outcome)

Empty(name, attrs) ==
    /\ pc = "main"
    /\ Read(EmptyEvent(name, attrs))
    /\ UNCHANGED open
    /\ LET outcome == IF EmptyReadsAttrs(name)
                      THEN AttrOutcome(attrs, AttrKey(name))
                      ELSE "ok"
       IN  CASE outcome = "ok" ->
                   /\ EmptyArm(name, attrs)
                   /\ UNCHANGED <<pc, result, xtabml, path_stack,
                                  text_buffer, control_type, depth>>
             [] outcome = "panic" -> Panic
             [] OTHER -> ReturnErr(outcome)

---------------------------------------------------------------------------
(* The remaining arms of the main loop.                                    *)

\* `_ => {}`: comment, CDATA, declaration, processing instruction, doctype
Ignored ==
    /\ pc = "main"
    /\ Read(OtherEvent)
    /\ UNCHANGED <<open, pc, result, xtabml, path_stack, text_buffer, builder,
                   control_type, depth>>

\* Eof with an input that ends before its first element taken as an error
Eof_EmptyInputIsError ==
    /\ pc = "main"
    /\ Read(EofEvent)
    /\ IF nread = 0 THEN ReturnErr("InvalidStructure") ELSE ReturnOk
    /\ UNCHANGED open

\* Eof with an input that ends inside an open element taken as an error
Eof_UnclosedIsError ==
    /\ pc = "main"
    /\ Read(EofEvent)
    /\ IF open # << >> THEN ReturnErr("InvalidStructure") ELSE ReturnOk
    /\ UNCHANGED open

\* Ok(Event::Eof) => break, then Ok(xtabml)
Eof ==
    /\ pc = "main"
    /\ Read(EofEvent)
    /\ ReturnOk
    /\ UNCHANGED open

\* ReadError with the Err arm falling through to the next iteration
ReadError_Swallowed ==
    /\ pc = "main"
    /\ Read(ErrEvent)
    /\ UNCHANGED <<open, pc, result, xtabml, path_stack, text_buffer, builder,
                   control_type, depth>>

\* Err(e) => return Err(XtabMLError::XmlParse(e))
ReadError ==
    /\ pc = "main"
    /\ Read(ErrEvent)
    /\ ReturnErr("XmlParse")
    /\ UNCHANGED open

---------------------------------------------------------------------------
(* The capture loop of the control arm: one action per arm of its match.   *)

\* CaptureStart with a nested open that leaves the depth counter alone
CaptureStart_KeepsDepth(name) ==
    /\ pc = "control"
    /\ open' = Append(open, name)
    /\ Read(StartEvent(name, << >>))
    /\ UNCHANGED <<pc, result, xtabml, path_stack, text_buffer, builder,
                   control_type, depth>>

CaptureStart(name) ==
    /\ pc = "control"
    /\ open' = Append(open, name)
    /\ Read(StartEvent(name, << >>))
    /\ depth' = depth + 1
    /\ UNCHANGED <<pc, result, xtabml, path_stack, text_buffer, builder,
                   control_type>>

\* FinishControl pushing to the document whether or not a table is open
FinishControl_AlwaysToDocument ==
    /\ xtabml' = [xtabml EXCEPT
                     !.controls = Append(@, Control(control_type, text_buffer))]
    /\ text_buffer' = EmptyString
    /\ pc' = "main"
    /\ control_type' = ""
    /\ UNCHANGED builder

\* after the loop: the Control is pushed to the open table, else to the
\* document, and the main loop continues with the next event
FinishControl ==
    LET control == Control(control_type, text_buffer)
    IN  /\ IF IsSome(current_table)
           THEN /\ current_table' =
                     Some([Unwrap(current_table) EXCEPT
                              !.controls = Append(@, control)])
                /\ UNCHANGED xtabml
           ELSE /\ xtabml' = [xtabml EXCEPT !.controls = Append(@, control)]
                /\ UNCHANGED current_table
        /\ text_buffer' = EmptyString
        /\ pc' = "main"
        /\ control_type' = ""
        /\ UNCHANGED <<current_edge, current_group, current_data_row,
                       current_data_row_series_index, current_data_cell,
                       current_element, current_element_index,
                       current_statistic_type>>

CaptureEnd ==
    /\ pc = "control"
    /\ open # << >>
    /\ open' = Pop(open)
    /\ Read(EndEvent(Last(open)))
    /\ depth' = depth - 1
    /\ IF depth - 1 = 0
       THEN FinishControl
       ELSE UNCHANGED <<pc, xtabml, text_buffer, builder, control_type>>
    /\ UNCHANGED <<result, path_stack>>

CaptureText(run, unescapes) ==
    /\ pc = "control"
    /\ Read(TextEvent(run, unescapes))
    /\ IF unescapes
       THEN /\ text_buffer' = Append(text_buffer, run)
            /\ UNCHANGED <<pc, result, xtabml, path_stack, builder,
                           control_type, depth>>
       ELSE ReturnErr("XmlParse")
    /\ UNCHANGED open

\* `_ => {}` inside the loop: Empty, comment, CDATA, ...
CaptureIgnored ==
    /\ pc = "control"
    /\ Read(OtherEvent)
    /\ UNCHANGED <<open, pc, result, xtabml, path_stack, text_buffer, builder,
                   control_type, depth>>

\* `_ => {}` inside the loop on Event::Empty: a self-closing element of the
\* body, whatever its name and attributes
CaptureEmpty(name, attrs) ==
    /\ pc = "control"
    /\ Read(EmptyEvent(name, attrs))
    /\ UNCHANGED <<open, pc, result, xtabml, path_stack, text_buffer, builder,
                   control_type, depth>>

\* CaptureEof leaving the loop as the main loop does: Ok(xtabml)
CaptureEof_ReturnsOk ==
    /\ pc = "control"
    /\ Read(EofEvent)
    /\ ReturnOk
    /\ UNCHANGED open

\* Ok(Event::Eof) inside the loop
CaptureEof ==
    /\ pc = "control"
    /\ Read(EofEvent)
    /\ ReturnErr("InvalidStructure")
    /\ UNCHANGED open

\* Err(e) inside the loop
CaptureReadError ==
    /\ pc = "control"
    /\ Read(ErrEvent)
    /\ ReturnErr("XmlParse")
    /\ UNCHANGED open

---------------------------------------------------------------------------
(* The token source: what the events it delivers are drawn from.           *)

\* element names: every name some arm matches, "data" and "date" for `_`
Names == {"xtab", "table", "control", "edge", "group", "element", "summary",
          "statistic", "r", "c", "v", "x", "statistictype", "t", "data", "date"}

\* the parent of the next event: the innermost open element, Root for none
Root == "#root"

Parents == Names \cup {Root}

Parent == IF open = << >> THEN Root ELSE Last(open)

Attr(key, val) == [key |-> key, val |-> val]

\* attribute lists of an element: none, the attribute its arm reads, and an
\* attribute its arm does not read
AttrsOf(name) ==
    CASE name = "xtab"          -> {<< >>, <<Attr("version", "1.1")>>,
                                    <<Attr("name", "n")>>}
      [] name = "table"         -> {<< >>, <<Attr("name", "T")>>}
      [] name = "control"       -> {<< >>, <<Attr("type", "weight")>>}
      [] name = "edge"          -> {<< >>, <<Attr("axis", "r")>>,
                                    <<Attr("axis", "c")>>, <<Attr("axis", "z")>>}
      [] name = "statistic"     -> {<< >>, <<Attr("type", "Percent")>>,
                                    <<Attr("type", "n")>>}
      [] name = "statistictype" -> {<< >>, <<Attr("name", "Percent")>>}
      [] OTHER                  -> {<< >>}

\* A family of event streams: for each parent, the elements that may open
\* (start) or stand self-closed (empty) in it, whether text may occur in it
\* (text), the text runs, whether a run may fail to unescape, and the bounds.
\* Every stream of a family is well nested, since the reader delivers an End
\* for the innermost open element only; it may end (end-of-input) or fail
\* (error) at any point.

\* the events the main loop handles in its Start, End, Text and Empty arms,
\* end-of-input and a read error
Elements(G) ==
    \/ /\ nread < G.limit
       /\ Len(open) < G.maxopen
       /\ \E name \in G.start[Parent] : \E attrs \in G.attrs[name] :
              Start(name, attrs)
    \/ /\ nread < G.limit
       /\ End
    \/ /\ nread < G.limit
       /\ Parent \in G.text
       /\ \E run \in G.runs, unescapes \in G.unescapes : Text(run, unescapes)
    \/ /\ nread < G.limit
       /\ \E name \in G.empty[Parent] : \E attrs \in G.attrs[name] :
              Empty(name, attrs)
    \/ Eof
    \/ ReadError

\* comments, CDATA, declarations, ... between the elements
Ignorable(G) ==
    \/ /\ nread < G.limit
       /\ Ignored
    \/ /\ nread < G.limit
       /\ CaptureIgnored

\* the events read by the capture loop of a control
Captured(G) ==
    \/ /\ nread < G.limit
       /\ Len(open) < G.maxopen
       /\ \E name \in G.start[Parent] : CaptureStart(name)
    \/ /\ nread < G.limit
       /\ CaptureEnd
    \/ /\ nread < G.limit
       /\ Parent \in G.text
       /\ \E run \in G.runs, unescapes \in G.unescapes :
              CaptureText(run, unescapes)
    \/ CaptureEof
    \/ CaptureReadError

\* the self-closing elements read by the capture loop of a control
CapturedEmpty(G) ==
    /\ nread < G.limit
    /\ \E name \in G.empty[Parent] : \E attrs \in G.attrs[name] :
           CaptureEmpty(name, attrs)

NoChildren == [p \in Parents |-> {}]

NoAttrs == [n \in Names |-> {<< >>}]

---------------------------------------------------------------------------
(* Spec: every well-nested stream over all the names, up to MaxEvents.     *)

AnyStream ==
    [limit     |-> MaxEvents,
     maxopen   |-> MaxOpen,
     start     |-> [p \in Parents |-> Names],
     empty     |-> [p \in Parents |-> Names],
     attrs     |-> [n \in Names |-> AttrsOf(n)],
     text      |-> Parents,
     runs      |-> {"a", "b"},
     unescapes |-> BOOLEAN]

Next == Elements(AnyStream) \/ Ignorable(AnyStream) \/ Captured(AnyStream)

Spec == Init /\ [][Next]_vars

---------------------------------------------------------------------------
(* SpecData: tables with statistic declarations and data rows.  Rows hold  *)
(* cell-groups or bare missing-markers, cell-groups hold values or         *)
(* missing-markers, a value may hold text and missing-markers (open or     *)
(* self-closing); statistics and rows come in any order.                   *)

DataStream ==
    [limit     |-> MaxDataEvents,
     maxopen   |-> MaxDataOpen,
     start     |-> [NoChildren EXCEPT ![Root]    = {"table"},
                                      !["table"] = {"r"},
                                      !["r"]     = {"c"},
                                      !["c"]     = {"v"},
                                      !["v"]     = {"x"}],
     empty     |-> [NoChildren EXCEPT !["table"] = {"statistic"},
                                      !["r"]     = {"x", "c"},
                                      !["c"]     = {"x"},
                                      !["v"]     = {"x"}],
     attrs     |-> [NoAttrs EXCEPT
                        !["table"]     = {<<Attr("name", "T")>>},
                        !["statistic"] = {<<Attr("type", "Percent")>>,
                                          <<Attr("type", "n")>>}],
     text      |-> {"c", "v", "x"},
     runs      |-> {"a"},
     unescapes |-> {TRUE}]

NextData == Elements(DataStream)

SpecData == Init /\ [][NextData]_vars

---------------------------------------------------------------------------
(* SpecEdge: tables with a title and edges of groups of elements and       *)
(* summaries.  A table may lack its title, an element or a summary may     *)
(* hold any number of text holders, groups may nest.                       *)

EdgeStream ==
    [limit     |-> MaxEdgeEvents,
     maxopen   |-> MaxEdgeOpen,
     start     |-> [NoChildren EXCEPT ![Root]      = {"table"},
                                      !["table"]   = {"t", "edge"},
                                      !["edge"]    = {"group"},
                                      !["group"]   = {"element", "summary", "group"},
                                      !["element"] = {"t"},
                                      !["summary"] = {"t"}],
     empty     |-> [NoChildren EXCEPT !["group"]   = {"element"}],
     attrs     |-> [NoAttrs EXCEPT
                        !["table"] = {<<Attr("name", "T")>>},
                        !["edge"]  = {<<Attr("axis", "r")>>,
                                      <<Attr("axis", "c")>>,
                                      <<Attr("axis", "z")>>}],
     text      |-> {"t", "summary"},
     runs      |-> {"a"},
     unescapes |-> {TRUE}]

NextEdge == Elements(EdgeStream)

SpecEdge == Init /\ [][NextEdge]_vars

---------------------------------------------------------------------------
(* SpecControl: controls at document level, inside tables and after them,  *)
(* with bodies of text, text holders and nested elements.                  *)

ControlStream ==
    [limit     |-> MaxControlEvents,
     maxopen   |-> MaxControlOpen,
     start     |-> [NoChildren EXCEPT ![Root]      = {"xtab", "table", "control"},
                                      !["xtab"]    = {"table", "control"},
                                      !["table"]   = {"control", "t"},
                                      !["control"] = {"t", "control", "table"}],
     empty     |-> [NoChildren EXCEPT !["table"]   = {"statistic"},
                                      !["control"] = {"statistic"}],
     attrs     |-> [NoAttrs EXCEPT
                        !["xtab"]      = {<<Attr("version", "1.1")>>},
                        !["table"]     = {<<Attr("name", "T")>>},
                        !["control"]   = {<< >>, <<Attr("type", "weight")>>},
                        !["statistic"] = {<<Attr("type", "n")>>}],
     text      |-> {"t", "control"},
     runs      |-> {"a", "b"},
     unescapes |-> {TRUE}]

NextControl == Elements(ControlStream) \/ Captured(ControlStream)

SpecControl == Init /\ [][NextControl]_vars

---------------------------------------------------------------------------
(* SpecAxis: tables and edges of every axis.  An edge carries axis "r",    *)
(* "c", another value or no axis attribute; it may stand outside a table,  *)
(* inside another edge, or self-closed, and a table may hold no edge.      *)

AxisStream ==
    [limit     |-> MaxAxisEvents,
     maxopen   |-> MaxAxisOpen,
     start     |-> [NoChildren EXCEPT ![Root]    = {"table", "edge"},
                                      !["table"] = {"edge"},
                                      !["edge"]  = {"group", "edge"}],
     empty     |-> [NoChildren EXCEPT !["table"] = {"edge"}],
     attrs     |-> [NoAttrs EXCEPT
                        !["edge"] = {<< >>,
                                     <<Attr("axis", "r")>>,
                                     <<Attr("axis", "c")>>,
                                     <<Attr("axis", "z")>>}],
     text      |-> {"group"},
     runs      |-> {"a"},
     unescapes |-> {TRUE}]

NextAxis == Elements(AxisStream)

SpecAxis == Init /\ [][NextAxis]_vars

---------------------------------------------------------------------------
(* SpecAttr: the elements whose arms read an attribute, with attributes    *)
(* that decode, an attribute whose value is not UTF-8 (read by the arm or  *)
(* not) and an attribute the token source cannot read, alone or after      *)
(* another attribute.  A statistic stands inside a table or outside one.   *)

\* attribute lists of an element whose arm reads the attribute `key`
FailingAttrsOf(key) ==
    {<< >>,
     <<Attr(key, "v")>>,
     <<Attr(key, InvalidUtf8)>>,
     <<Attr("other", InvalidUtf8)>>,
     <<AttrErr>>,
     <<Attr(key, "v"), AttrErr>>,
     <<Attr(key, InvalidUtf8), AttrErr>>}

AttrStream ==
    [limit     |-> MaxAttrEvents,
     maxopen   |-> MaxAttrOpen,
     start     |-> [NoChildren EXCEPT
                        ![Root]    = {"xtab"},
                        !["xtab"]  = {"table", "control", "statistictype"},
                        !["table"] = {"edge", "control"},
                        !["control"] = {"t"}],
     empty     |-> [NoChildren EXCEPT !["xtab"]  = {"statistic"},
                                      !["table"] = {"statistic"}],
     attrs     |-> [n \in Names |->
                        IF AttrKey(n) = "" THEN {<< >>}
                                           ELSE FailingAttrsOf(AttrKey(n))],
     text      |-> {"statistictype", "t"},
     runs      |-> {"a"},
     unescapes |-> {TRUE}]

NextAttr == Elements(AttrStream) \/ Captured(AttrStream)

SpecAttr == Init /\ [][NextAttr]_vars

\* parse_bytes runs on its caller's thread without waiting for anything: a
\* step that can be taken is taken
LiveSpecAttr == SpecAttr /\ WF_vars(NextAttr)

---------------------------------------------------------------------------
(* SpecCapture: controls at document level and inside a table, after text  *)
(* of the table or of a statistic declaration, with bodies of text, text    *)
(* holders, nested controls, tables and data rows, and of events the       *)
(* capture loop ignores (self-closing elements, comments).                 *)

CaptureStream ==
    [limit     |-> MaxCaptureEvents,
     maxopen   |-> MaxCaptureOpen,
     start     |-> [NoChildren EXCEPT ![Root]      = {"table", "control"},
                                      !["table"]   = {"control"},
                                      !["control"] = {"t", "control", "table", "r"}],
     empty     |-> [NoChildren EXCEPT !["table"]   = {"statistic"},
                                      !["control"] = {"statistic"}],
     attrs     |-> [NoAttrs EXCEPT
                        !["control"]   = {<< >>, <<Attr("type", "weight")>>},
                        !["statistic"] = {<<Attr("type", "n")>>}],
     text      |-> {"table", "control", "t"},
     runs      |-> {"a", "b"},
     unescapes |-> {TRUE}]

NextCapture ==
    \/ Elements(CaptureStream)
    \/ Ignorable(CaptureStream)
    \/ Captured(CaptureStream)
    \/ CapturedEmpty(CaptureStream)

SpecCapture == Init /\ [][NextCapture]_vars

---------------------------------------------------------------------------
(* SpecRow: tables, data rows and statistic declarations nested in one     *)
(* another in any well-nested way: a table inside a table or inside a row, *)
(* a row inside a row, a statistic declared inside a row, a value directly *)
(* in a row.                                                               *)

RowStream ==
    [limit     |-> MaxRowEvents,
     maxopen   |-> MaxRowOpen,
     start     |-> [NoChildren EXCEPT ![Root]    = {"table"},
                                      !["table"] = {"table", "r"},
                                      !["r"]     = {"table", "r", "v"}],
     empty     |-> [NoChildren EXCEPT !["table"] = {"statistic"},
                                      !["r"]     = {"statistic"}],
     attrs     |-> [NoAttrs EXCEPT
                        !["statistic"] = {<<Attr("type", "Percent")>>,
                                          <<Attr("type", "n")>>}],
     text      |-> {"v"},
     runs      |-> {"a"},
     unescapes |-> {TRUE}]

NextRow == Elements(RowStream)

SpecRow == Init /\ [][NextRow]_vars

---------------------------------------------------------------------------
(* SpecTables: several tables, one after another or one inside another,    *)
(* with controls, statistic declarations, edges, data rows, text holders   *)
(* and text both inside the tables and between them; the body of a control *)
(* may hold a table.                                                       *)

TablesStream ==
    [limit     |-> MaxTablesEvents,
     maxopen   |-> MaxTablesOpen,
     start     |-> [NoChildren EXCEPT
                        ![Root]    = {"table", "control", "edge", "r", "t"},
                        !["table"] = {"table", "control", "edge", "r", "t"},
                        !["control"] = {"table"}],
     empty     |-> [NoChildren EXCEPT ![Root]    = {"statistic"},
                                      !["table"] = {"statistic"}],
     attrs     |-> [NoAttrs EXCEPT
                        !["table"]     = {<<Attr("name", "T")>>, <<Attr("name", "U")>>},
                        !["control"]   = {<<Attr("type", "weight")>>},
                        !["edge"]      = {<<Attr("axis", "r")>>},
                        !["statistic"] = {<<Attr("type", "n")>>}],
     text      |-> {Root, "table", "t", "control"},
     runs      |-> {"a"},
     unescapes |-> {TRUE}]

NextTables == Elements(TablesStream) \/ Captured(TablesStream)

SpecTables == Init /\ [][NextTables]_vars

---------------------------------------------------------------------------
(* SpecTableData: shape and get_statistic_data called on a table with up   *)
(* to MaxQueryStatistics statistics and up to MaxQueryRows data rows of up *)
(* to MaxQuerySeries series of up to MaxQueryCells cells; a cell holds a   *)
(* value, is missing, or is the default cell.                              *)

\* the sequences over S of length at most n
SeqsUpTo(S, n) == UNION {[1..k -> S] : k \in 0..n}

QueryCells == {DataCell(Some(<<"a">>), FALSE), DataCell(None, TRUE),
               DataCellDefault}

QuerySeries ==
    {[DataRowSeries(Statistic("s")) EXCEPT !.cells = cells] :
        cells \in SeqsUpTo(QueryCells, MaxQueryCells)}

QueryRows ==
    {[data_row_series |-> series] :
        series \in SeqsUpTo(QuerySeries, MaxQuerySeries)}

DataTables ==
    {[Table(None) EXCEPT !.statistics = statistics,
                         !.data = [rows |-> rows]] :
        statistics \in SeqsUpTo({Statistic("s")}, MaxQueryStatistics),
        rows \in SeqsUpTo(QueryRows, MaxQueryRows)}

InitTableData ==
    /\ Idle
    /\ call \in {Call("none", table, 0, None) : table \in DataTables}

CallShape ==
    /\ call.method = "none"
    /\ call' = [call EXCEPT !.method = "shape",
                            !.returned = shape(call.self)]
    /\ UNCHANGED parser

CallGetStatisticData(statistic_index) ==
    /\ call.method = "none"
    /\ call' = [call EXCEPT
                   !.method = "get_statistic_data",
                   !.index = statistic_index,
                   !.returned = get_statistic_data(call.self, statistic_index)]
    /\ UNCHANGED parser

NextTableData ==
    \/ CallShape
    \/ \E statistic_index \in 0..MaxQueryStatistics :
           CallGetStatisticData(statistic_index)

SpecTableData == InitTableData /\ [][NextTableData]_vars

---------------------------------------------------------------------------
(* SpecTableLabels: row_labels and column_labels called on a table whose   *)
(* one edge is absent or holds up to MaxQueryGroups groups of up to        *)
(* MaxQueryElements elements with or without a summary, and whose other    *)
(* edge is absent or holds one group of one element.                       *)

QueryElements == {[Element EXCEPT !.text = <<run>>] : run \in {"a", "b"}}

QueryGroups ==
    {[elements |-> elements, summaries |-> summaries] :
        elements \in SeqsUpTo(QueryElements, MaxQueryElements),
        summaries \in {<< >>, <<Summary(<<"s">>)>>}}

\* an edge of the given axis, absent or with up to MaxQueryGroups groups
QueryEdges(axis) ==
    {None} \cup {Some([Edge(axis) EXCEPT !.groups = groups]) :
                    groups \in SeqsUpTo(QueryGroups, MaxQueryGroups)}

\* an edge of the given axis, absent or with one group of one element
OtherEdges(axis) ==
    {None,
     Some([Edge(axis) EXCEPT
              !.groups = <<[Group EXCEPT
                               !.elements = <<[Element EXCEPT
                                                  !.text = <<"c">>]>>]>>])}

EdgeTable(row, column) ==
    [Table(None) EXCEPT !.row_edge = row, !.column_edge = column]

InitTableLabels ==
    /\ Idle
    /\ \/ \E row \in QueryEdges("r"), column \in OtherEdges("c") :
              call = Call("none", EdgeTable(row, column), 0, None)
       \/ \E row \in OtherEdges("r"), column \in QueryEdges("c") :
              call = Call("none", EdgeTable(row, column), 0, None)

CallRowLabels ==
    /\ call.method = "none"
    /\ call' = [call EXCEPT !.method = "row_labels",
                            !.returned = row_labels(call.self)]
    /\ UNCHANGED parser

CallColumnLabels ==
    /\ call.method = "none"
    /\ call' = [call EXCEPT !.method = "column_labels",
                            !.returned = column_labels(call.self)]
    /\ UNCHANGED parser

NextTableLabels == CallRowLabels \/ CallColumnLabels

SpecTableLabels == InitTableLabels /\ [][NextTableLabels]_vars

---------------------------------------------------------------------------
(* What the claims speak of.                                               *)

\* parse_bytes has returned Ok(xtabml)
Returned == pc = "done" /\ result = "Ok"

\* the tables the parser holds: those of the document and the one in progress
HeldTables ==
    {xtabml.tables[k] : k \in 1..Len(xtabml.tables)}
        \cup {current_table[k] : k \in 1..Len(current_table)}

\* the rows the parser holds: those of the held tables and the one in progress
HeldRows ==
    UNION {{t.data.rows[k] : k \in 1..Len(t.data.rows)} : t \in HeldTables}
        \cup {current_data_row[k] : k \in 1..Len(current_data_row)}

\* the cells the parser holds: those of the held rows and the one in progress
HeldCells ==
    UNION {UNION {{row.data_row_series[i].cells[j] :
                      j \in 1..Len(row.data_row_series[i].cells)} :
                  i \in 1..Len(row.data_row_series)} : row \in HeldRows}
        \cup {current_data_cell[k] : k \in 1..Len(current_data_cell)}

\* the groups of a table's edges, row edge first
GroupsOf(table) ==
    UNION {UNION {{e[k].groups[g] : g \in 1..Len(e[k].groups)} :
                  k \in 1..Len(e)} :
           e \in {table.row_edge, table.column_edge}}

---------------------------------------------------------------------------
(* C1 .. C10                                                               *)

\* C1: in every returned document, every data row of every table has as
\* many series as the table has statistics, and the series at position i
\* carries the statistic declared at position i.
C1_SeriesMirrorStatistics ==
    Returned =>
        \A k \in 1..Len(xtabml.tables) :
            LET table == xtabml.tables[k]
            IN  \A r \in 1..Len(table.data.rows) :
                    LET series == table.data.rows[r].data_row_series
                    IN  /\ Len(series) = Len(table.statistics)
                        /\ \A i \in 1..Len(series) :
                               series[i].statistic = Some(table.statistics[i])

\* C2: no returned document holds a table with a non-empty statistics list
\* whose number of data rows is not a multiple of the number of statistics.
C2_RowsMultipleOfStatistics ==
    Returned =>
        \A k \in 1..Len(xtabml.tables) :
            LET table == xtabml.tables[k]
            IN  table.statistics # << >> =>
                    Len(table.data.rows) % Len(table.statistics) = 0

\* C3: in every returned document, all the series of one data row hold the
\* same number of cells.
C3_SeriesOfARowEquallyLong ==
    Returned =>
        \A k \in 1..Len(xtabml.tables) :
            \A r \in 1..Len(xtabml.tables[k].data.rows) :
                LET series == xtabml.tables[k].data.rows[r].data_row_series
                IN  \A i, j \in 1..Len(series) :
                        Len(series[i].cells) = Len(series[j].cells)

\* C4: no cell the parser holds (in progress, stored in a series of the row
\* in progress, of the table in progress or of a table of the document, the
\* returned one included) is missing and carries a value.
C4_MissingCellHasNoValue ==
    \A cell \in HeldCells : ~(cell.is_missing /\ IsSome(cell.value))

\* C4 witness: a row is open with the cursor in range, the cell in progress
\* was marked missing by an open missing-marker, and text has arrived since,
\* so that the coming value close will give the cell a value.
C4_Witness ==
    /\ pc = "main"
    /\ IsSome(current_data_row)
    /\ current_data_row_series_index < Len(Unwrap(current_data_row).data_row_series)
    /\ IsSome(current_data_cell)
    /\ Unwrap(current_data_cell).is_missing
    /\ text_buffer # EmptyString

\* C5: in every group of every returned document, the i-th element
\* (0-based, document order) has index i.
C5_ElementIndexIsPosition ==
    Returned =>
        \A k \in 1..Len(xtabml.tables) :
            \A group \in GroupsOf(xtabml.tables[k]) :
                \A i \in 1..Len(group.elements) :
                    group.elements[i].index = Some(i - 1)

\* C6: the document's version is written by the root element only: a step
\* of the parse that is not the main loop opening an xtab element leaves the
\* version as it is (a failing step leaves no document).
C6_OnlyRootSetsVersion ==
    [][(pc' # "done" /\ ~(pc = "main" /\ event' .kind = "Start"
                                      /\ event' .name = "xtab"))
           => xtabml' .version = xtabml.version]_vars

\* C7: the control completed by the capture loop is appended, last, to the
\* controls of the table in progress when there is one and otherwise to the
\* controls of the document, and to that list only; no other step of a
\* running parse changes either list, and a table is appended to the
\* document with the controls it has.
C7_ControlGoesToOneList ==
    [][IF pc = "control" /\ pc' = "main"
       THEN LET control == Control(control_type, text_buffer)
            IN  IF IsSome(current_table)
                THEN /\ IsSome(current_table')
                     /\ Unwrap(current_table').controls =
                            Append(Unwrap(current_table).controls, control)
                     /\ xtabml' .controls = xtabml.controls
                ELSE /\ xtabml' .controls = Append(xtabml.controls, control)
                     /\ current_table' = None
       ELSE pc' # "done" =>
                /\ xtabml' .controls = xtabml.controls
                /\ (IsSome(current_table) /\ IsSome(current_table')
                        /\ ~(pc = "main" /\ event' .kind = "Start"
                                         /\ event' .name = "table"))
                       => Unwrap(current_table').controls =
                              Unwrap(current_table).controls
                /\ (pc = "main" /\ IsSome(current_table)
                        /\ event' = EndEvent("table"))
                       => /\ Len(xtabml' .tables) = Len(xtabml.tables) + 1
                          /\ Last(xtabml' .tables).controls =
                                 Unwrap(current_table).controls]_vars

\* C7 witness: a control has just been captured at document level after a
\* table that holds a control of its own was closed.
C7_Witness ==
    /\ pc = "main"
    /\ event = EndEvent("control")
    /\ current_table = None
    /\ xtabml.controls # << >>
    /\ xtabml.tables # << >>
    /\ Last(xtabml.tables).controls # << >>

\* C8: end-of-input read by the capture loop of a control ends the parse
\* with an InvalidStructure error.
C8_EofInControlIsInvalidStructure ==
    [][(pc = "control" /\ event' .kind = "Eof")
           => (pc' = "done" /\ result' = "InvalidStructure")]_vars

\* C8 witness: the parse failed with InvalidStructure on end-of-input while
\* an element nested in the control body was still open.
C8_Witness ==
    /\ pc = "done"
    /\ result = "InvalidStructure"
    /\ event.kind = "Eof"
    /\ Len(open) >= 2
    /\ open[1] = "control"

\* C9: a step in which the token source reports an error ends the parse with
\* an XmlParse error, and no step follows a reported error.
C9_ReadErrorAborts ==
    [][/\ event' .kind = "Err" => (pc' = "done" /\ result' = "XmlParse")
       /\ event.kind # "Err"]_vars

\* C9 witness: the parse failed with XmlParse on an error reported inside a
\* control body.
C9_Witness ==
    /\ pc = "done"
    /\ result = "XmlParse"
    /\ event.kind = "Err"
    /\ open # << >>
    /\ open[1] = "control"

\* C10: the close of a table that declares 2 statistics and whose final data
\* row supplied exactly 1 cell-group (the cursor stands at 1) makes the parse
\* fail with an InvalidStructure error.
C10_ShortFinalRowIsInvalidStructure ==
    [][(/\ pc = "main"
        /\ event' = EndEvent("table")
        /\ IsSome(current_table)
        /\ Len(Unwrap(current_table).statistics) = 2
        /\ Unwrap(current_table).data.rows # << >>
        /\ Len(Last(Unwrap(current_table).data.rows).data_row_series) = 2
        /\ current_data_row_series_index = 1)
           => (pc' = "done" /\ result' = "InvalidStructure")]_vars

\* C11: an input whose first event is end-of-input yields Ok with a document
\* whose version is empty, whose date, time, origin and user are absent and
\* whose languages, control types, statistic types, controls and tables are
\* all empty.
C11_EmptyInputIsEmptyDocument ==
    (pc = "done" /\ nread = 1 /\ event = EofEvent) =>
        /\ result = "Ok"
        /\ xtabml.version = ""
        /\ xtabml.date = None
        /\ xtabml.time = None
        /\ xtabml.origin = None
        /\ xtabml.user = None
        /\ xtabml.languages = << >>
        /\ xtabml.control_types = << >>
        /\ xtabml.statistic_types = << >>
        /\ xtabml.controls = << >>
        /\ xtabml.tables = << >>

\* C11 witness: the parse has returned on end-of-input read as the first
\* event.
C11_Witness ==
    /\ pc = "done"
    /\ nread = 1
    /\ event = EofEvent
    /\ open = << >>

\* C12: every statistic declaration read while a table is open, self-closing
\* or opened as the first half of an open/close pair, appends exactly one
\* Statistic carrying its type attribute to that table.
C12_StatisticDeclarationAppends ==
    [][(/\ pc = "main"
        /\ IsSome(current_table)
        /\ event' .kind \in {"Start", "Empty"}
        /\ event' .name = "statistic")
           => /\ IsSome(current_table')
              /\ Unwrap(current_table').statistics =
                    Append(Unwrap(current_table).statistics,
                           Statistic(AttrValue(event' .attrs, "type", "")))]_vars

\* C13: the close of the edge under construction inside an open table stores
\* it in the table's row-edge slot when its axis is "r" and in the
\* column-edge slot when its axis is "c", and leaves both slots as they were
\* for any other axis or none; a table starts with both slots absent and no
\* other step changes the slots of the open table.  So in every table a
\* present row edge has axis "r" and a present column edge has axis "c".
C13_EdgeSlotFollowsAxis ==
    /\ [][/\ (/\ pc = "main"
              /\ event' = EndEvent("edge")
              /\ IsSome(current_table)
              /\ IsSome(current_edge))
                 => /\ IsSome(current_table')
                    /\ LET axis  == Unwrap(current_edge).axis
                           table == Unwrap(current_table)
                           after == Unwrap(current_table')
                       IN  /\ after.row_edge =
                                 IF axis = "r" THEN current_edge
                                               ELSE table.row_edge
                           /\ after.column_edge =
                                 IF axis = "c" THEN current_edge
                                               ELSE table.column_edge
          /\ (/\ pc = "main"
              /\ event' .kind = "Start"
              /\ event' .name = "table")
                 => /\ IsSome(current_table')
                    /\ Unwrap(current_table').row_edge = None
                    /\ Unwrap(current_table').column_edge = None
          /\ (/\ IsSome(current_table)
              /\ IsSome(current_table')
              /\ ~(pc = "main" /\ event' = EndEvent("edge"))
              /\ ~(pc = "main" /\ event' .kind = "Start"
                               /\ event' .name = "table"))
                 => /\ Unwrap(current_table').row_edge =
                          Unwrap(current_table).row_edge
                    /\ Unwrap(current_table').column_edge =
                          Unwrap(current_table).column_edge]_vars
    /\ [](\A table \in HeldTables :
              /\ IsSome(table.row_edge) => Unwrap(table.row_edge).axis = "r"
              /\ IsSome(table.column_edge) =>
                     Unwrap(table.column_edge).axis = "c")

\* C13 witness: an edge has just closed in an open table that now holds a row
\* edge of axis "r" and a column edge of axis "c".
C13_Witness ==
    /\ pc = "main"
    /\ event = EndEvent("edge")
    /\ IsSome(current_table)
    /\ IsSome(Unwrap(current_table).row_edge)
    /\ Unwrap(Unwrap(current_table).row_edge).axis = "r"
    /\ IsSome(Unwrap(current_table).column_edge)
    /\ Unwrap(Unwrap(current_table).column_edge).axis = "c"

\* C14: in every document returned with Ok the date, time, origin and user
\* are absent and the languages, control types and statistic types are
\* empty, whatever elements the input held.
C14_MetadataNeverPopulated ==
    Returned =>
        /\ xtabml.date = None
        /\ xtabml.time = None
        /\ xtabml.origin = None
        /\ xtabml.user = None
        /\ xtabml.languages = << >>
        /\ xtabml.control_types = << >>
        /\ xtabml.statistic_types = << >>

\* C14 witness: Ok was returned for an input that held a statistictype
\* element and a date element.
C14_Witness ==
    /\ Returned
    /\ open = <<"statistictype", "date">>

\* C15: a step that reads an element whose arm loops over the attributes
\* (root, table, control, edge, statistic-type; statistic inside a table),
\* with an attribute the token source cannot read or with an undecodable
\* value of the attribute the arm reads, ends the parse with an
\* InvalidStructure error; the parse never ends without a Result.
C15_AttributeFailureIsInvalidStructure ==
    /\ [][(/\ pc = "main"
           /\ \/ event' .kind = "Start" /\ StartReadsAttrs(event' .name)
              \/ event' .kind = "Empty" /\ EmptyReadsAttrs(event' .name)
           /\ AttrFailures(event' .attrs, AttrKey(event' .name)) # {})
              => (pc' = "done" /\ result' = "InvalidStructure")]_vars
    /\ [](result # "panic")

\* C16: a step that reads a text run that does not unescape, in the main
\* loop or in the capture loop of a control, ends the parse with an error.
C16_UndecodableTextAborts ==
    [][event' .kind = "BadText"
          => (pc' = "done" /\ result' \in {"XmlParse", "InvalidStructure"})]_vars

\* C17: shape returns the pair (number of data rows, number of cells in the
\* first series of the first data row), and (0, 0) for a table with no data
\* rows.
C17_ShapeIsRowsByFirstSeriesCells ==
    call.method = "shape" =>
        LET rows == call.self.data.rows
        IN  IF rows = << >>
            THEN call.returned = Returns(<<0, 0>>)
            ELSE rows[1].data_row_series # << >> =>
                     call.returned =
                         Returns(<<Len(rows),
                                   Len(rows[1].data_row_series[1].cells)>>)

\* C18: get_statistic_data(i) returns None exactly when i is not less than
\* the number of statistics; for a smaller i, on a table whose rows all hold
\* a series at position i, what it returns is one entry per data row, entry
\* r being the optional values of the cells of row r's series at position i,
\* None for a missing cell.
C18_StatisticDataIsSeriesOfEveryRow ==
    call.method = "get_statistic_data" =>
        LET rows == call.self.data.rows
            i    == call.index
            n    == Len(call.self.statistics)
            cells(r) == rows[r].data_row_series[i + 1].cells
        IN  /\ call.returned = Returns(None) <=> i >= n
            /\ (/\ i < n
                /\ call.returned.defined
                /\ \A r \in 1..Len(rows) : Len(rows[r].data_row_series) > i)
                   => call.returned =
                          Returns(Some([r \in 1..Len(rows) |->
                              [c \in 1..Len(cells(r)) |->
                                  IF cells(r)[c].is_missing
                                  THEN None
                                  ELSE cells(r)[c].value]]))

\* C19: row_labels (column_labels) returns the texts of the elements of the
\* first group of the row (column) edge, in order, and the empty list when
\* that edge is absent or has no group.
C19_LabelsAreFirstGroupElements ==
    call.method \in {"row_labels", "column_labels"} =>
        LET edge == IF call.method = "row_labels"
                    THEN call.self.row_edge
                    ELSE call.self.column_edge
        IN  IF edge = None \/ Unwrap(edge).groups = << >>
            THEN call.returned = << >>
            ELSE LET elements == Unwrap(edge).groups[1].elements
                 IN  /\ Len(call.returned) = Len(elements)
                     /\ \A k \in 1..Len(elements) :
                            call.returned[k] = elements[k].text

\* C19 witness: row_labels returned the two labels of the first group of a
\* row edge whose first group also holds a summary and whose second group
\* holds another label.
C19_Witness ==
    /\ call.method = "row_labels"
    /\ call.returned = << <<"a">>, <<"b">> >>
    /\ IsSome(call.self.row_edge)
    /\ Len(Unwrap(call.self.row_edge).groups) = 2
    /\ Unwrap(call.self.row_edge).groups[1].summaries # << >>
    /\ Len(Unwrap(call.self.row_edge).groups[2].elements) = 1

\* C21: while the main loop runs, after every event it has handled, the
\* context stack is the chain of the names of the open elements, outermost
\* first; so it is empty whenever no element is open.
C21_StackIsChainOfOpenElements ==
    pc = "main" => path_stack = open

\* C22: a step of the main loop that handles a self-closing element, whatever
\* its name, and goes on parsing leaves the context stack as it was.
C22_EmptyKeepsStack ==
    [][(pc = "main" /\ event' .kind = "Empty" /\ pc' = "main")
          => path_stack' = path_stack]_vars

\* C22 witness: a self-closing missing-marker was handled inside a cell-group
\* of a data row and the stack is the chain table, r, c.
C22_Witness ==
    /\ pc = "main"
    /\ event = EmptyEvent("x", << >>)
    /\ path_stack = <<"table", "r", "c">>

\* C23: after every element close handled by the main loop the text
\* accumulator is empty.
C23_BufferEmptyAfterClose ==
    [][(pc = "main" /\ event' .kind = "End") => text_buffer' = EmptyString]_vars

\* C24: the close of a text holder that is a child of an element under
\* construction in an open table sets that element's label to the
\* accumulated text and leaves the table's title as it was.
C24_ElementTextHolderSetsLabel ==
    [][(/\ pc = "main"
        /\ event' = EndEvent("t")
        /\ Len(open) >= 2
        /\ open[Len(open) - 1] = "element"
        /\ IsSome(current_table)
        /\ IsSome(current_element))
           => /\ IsSome(current_table')
              /\ Unwrap(current_table').title = Unwrap(current_table).title
              /\ IsSome(current_element')
              /\ Unwrap(current_element').text = text_buffer]_vars

\* C25: the close of a summary inside a group under construction, read
\* right after the close of the text holder that wraps the summary's text,
\* appends exactly one Summary to that group.
C25_SummaryCloseAppendsSummary ==
    [][(/\ pc = "main"
        /\ event = EndEvent("t")
        /\ event' = EndEvent("summary")
        /\ IsSome(current_group))
           => /\ IsSome(current_group')
              /\ Len(Unwrap(current_group').summaries) =
                    Len(Unwrap(current_group).summaries) + 1]_vars

\* C26: the series cursor is 0 when a data row opens in an open table and
\* advances by exactly one on every cell-group of the row, closed after its
\* children or self-closing.
C26_CursorAdvancesPerCellGroup ==
    [][/\ (/\ pc = "main"
           /\ IsSome(current_table)
           /\ event' .kind = "Start"
           /\ event' .name = "r")
              => current_data_row_series_index' = 0
       /\ (/\ pc = "main"
           /\ IsSome(current_data_row)
           /\ \/ event' = EndEvent("c")
              \/ event' = EmptyEvent("c", << >>))
              => current_data_row_series_index' =
                     current_data_row_series_index + 1]_vars

\* C27: a self-closing missing-marker handled while a data row is open and
\* the cursor is below the number of its series appends exactly one cell
\* with no value and is_missing = TRUE to the series at the cursor, and
\* leaves every other series, the cursor and the text accumulator unchanged.
C27_EmptyMissingMarkerAppendsMissingCell ==
    [][(/\ pc = "main"
        /\ event' = EmptyEvent("x", << >>)
        /\ IsSome(current_data_row)
        /\ current_data_row_series_index
              < Len(Unwrap(current_data_row).data_row_series))
           => LET before == Unwrap(current_data_row).data_row_series
                  after  == Unwrap(current_data_row').data_row_series
                  at     == current_data_row_series_index + 1
              IN  /\ IsSome(current_data_row')
                  /\ Len(after) = Len(before)
                  /\ after[at].cells =
                        Append(before[at].cells, DataCell(None, TRUE))
                  /\ after[at].statistic = before[at].statistic
                  /\ \A k \in 1..Len(before) : k # at => after[k] = before[k]
                  /\ current_data_row_series_index' =
                        current_data_row_series_index
                  /\ text_buffer' = text_buffer]_vars

\* C27 witness: a self-closing missing-marker was handled in the second
\* cell-group of a row with two series, after text of that cell-group: the
\* second series ends with a missing cell and the text is still accumulated.
C27_Witness ==
    /\ pc = "main"
    /\ event = EmptyEvent("x", << >>)
    /\ current_data_row_series_index = 1
    /\ text_buffer # EmptyString
    /\ IsSome(current_data_row)
    /\ Len(Unwrap(current_data_row).data_row_series) = 2
    /\ Unwrap(current_data_row).data_row_series[2].cells # << >>
    /\ Last(Unwrap(current_data_row).data_row_series[2].cells).is_missing

\* C28: the close of a value whose cell is under construction in an open
\* data row completes the cell as (accumulated text, not missing) when the
\* accumulator is non-empty and leaves it without a value otherwise; the
\* cell is appended to the series at the cursor when the cursor is below the
\* number of series, and otherwise dropped with the row unchanged; the parse
\* goes on and the accumulator is empty afterwards.
C28_ValueCloseAppendsOrDrops ==
    [][(/\ pc = "main"
        /\ event' = EndEvent("v")
        /\ IsSome(current_data_cell)
        /\ IsSome(current_data_row))
           => LET before == Unwrap(current_data_row).data_row_series
                  after  == Unwrap(current_data_row').data_row_series
                  at     == current_data_row_series_index + 1
                  cell   == IF text_buffer # EmptyString
                            THEN DataCell(Some(text_buffer), FALSE)
                            ELSE Unwrap(current_data_cell)
              IN  /\ text_buffer = EmptyString => cell.value = None
                  /\ IsSome(current_data_row')
                  /\ IF current_data_row_series_index < Len(before)
                     THEN /\ Len(after) = Len(before)
                          /\ after[at].cells = Append(before[at].cells, cell)
                          /\ \A k \in 1..Len(before) :
                                 k # at => after[k] = before[k]
                     ELSE current_data_row' = current_data_row
                  /\ pc' = "main"
                  /\ result' = "none"
                  /\ text_buffer' = EmptyString]_vars

\* C28 witness: a value has closed in the second cell-group of a row with
\* one series: its cell was dropped and the series holds the cell of the
\* first cell-group, with its value.
C28_Witness ==
    /\ pc = "main"
    /\ event = EndEvent("v")
    /\ current_data_row_series_index = 1
    /\ IsSome(current_data_row)
    /\ Len(Unwrap(current_data_row).data_row_series) = 1
    /\ Unwrap(current_data_row).data_row_series[1].cells =
          <<DataCell(Some(<<"a">>), FALSE)>>

\* the controls of the open table, else those of the document: the list a
\* captured control is appended to
ControlsInScope ==
    IF IsSome(current_table) THEN Unwrap(current_table).controls
                             ELSE xtabml.controls

\* C29: the open of a control empties the accumulator and takes the type
\* attribute ("" when absent) as the control's type; every text run read by
\* the capture loop is appended to the accumulator in order, at any depth,
\* and no other captured event changes it or the type; the close that ends
\* the capture appends the Control of that type and that text, and leaves
\* the accumulator empty.
C29_CapturedControlIsTypeAndText ==
    [][/\ (pc = "main" /\ pc' = "control")
              => /\ text_buffer' = EmptyString
                 /\ control_type' = AttrValue(event' .attrs, "type", "")
       /\ (pc = "control" /\ pc' = "control")
              => /\ text_buffer' = IF event' .kind = "Text"
                                   THEN Append(text_buffer, event' .name)
                                   ELSE text_buffer
                 /\ control_type' = control_type
       /\ (pc = "control" /\ pc' = "main")
              => /\ ControlsInScope' =
                       Append(ControlsInScope, Control(control_type, text_buffer))
                 /\ text_buffer' = EmptyString]_vars

\* C29 witness: the capture of a control of type weight inside a table has
\* ended with the text of two runs, and the accumulator is empty.
C29_Witness ==
    /\ pc = "main"
    /\ event = EndEvent("control")
    /\ IsSome(current_table)
    /\ Unwrap(current_table).controls = <<Control("weight", <<"a", "b">>)>>
    /\ text_buffer = EmptyString

\* a table with its controls left out of the comparison
WithoutControls(table) ==
    IF IsSome(table) THEN Some([Unwrap(table) EXCEPT !.controls = << >>])
                     ELSE None

\* C30: while the body of a control is captured the depth counter is at least
\* one; an open adds one to it, a close takes one from it, and a self-closing
\* element, a text run or a comment leaves it alone; the capture ends at a
\* step exactly when that step reads the close that brings the counter to
\* zero; and every event read in the body, whatever element it names, leaves
\* the edge, group, element, data row, series cursor, data cell and statistic
\* type in progress, the open table but for its controls, and the Document
\* but for its controls, as they were.
C30_CaptureEndsAtDepthZeroAndKeepsBuilder ==
    [][(pc = "control" /\ pc' \in {"control", "main"})
          => /\ depth >= 1
             /\ depth' = CASE event' .kind = "Start" -> depth + 1
                           [] event' .kind = "End" -> depth - 1
                           [] OTHER -> depth
             /\ (pc' = "main") <=> (event' .kind = "End" /\ depth' = 0)
             /\ UNCHANGED <<current_edge, current_group, current_data_row,
                            current_data_row_series_index, current_data_cell,
                            current_element, current_element_index,
                            current_statistic_type>>
             /\ WithoutControls(current_table') = WithoutControls(current_table)
             /\ [xtabml' EXCEPT !.controls = << >>]
                    = [xtabml EXCEPT !.controls = << >>]
             /\ (pc' = "control")
                    => UNCHANGED <<current_table, xtabml>>]_vars

\* C30 witness: in the body of a control of a table, a nested control is open
\* and an r opened inside it has just been closed: the capture goes on at
\* depth two with the table still in progress.
C30_Witness ==
    /\ pc = "control"
    /\ open = <<"table", "control", "control">>
    /\ event = EndEvent("r")
    /\ depth = 2
    /\ IsSome(current_table)


---------------------------------------------------------------------------
(* C31 .. C38                                                              *)

\* the number of series of each data row of a table, in row order
SeriesCounts(table) ==
    [j \in 1..Len(table.data.rows) |-> Len(table.data.rows[j].data_row_series)]

\* s is an initial part of t
IsPrefix(s, t) ==
    /\ Len(s) <= Len(t)
    /\ \A i \in 1..Len(s) : s[i] = t[i]

\* C31: the open of a data row while a table is in progress makes the row in
\* progress a row of one series without cells per statistic of the table, in
\* the order of the statistics, each series holding its statistic, and sets
\* the cursor to 0; a step that is not such an open changes the number of
\* series of no row, in progress or appended to a table; and at every
\* moment, so in every returned document, no row of a table has more series
\* than the table has statistics.
C31_RowOpensWithSeriesPerStatistic ==
    /\ [][(pc = "main" /\ pc' = "main")
             => /\ (event' = StartEvent("r", << >>) /\ IsSome(current_table))
                      => /\ IsSome(current_data_row')
                         /\ LET series == Unwrap(current_data_row').data_row_series
                                statistics == Unwrap(current_table).statistics
                            IN  /\ Len(series) = Len(statistics)
                                /\ \A i \in 1..Len(series) :
                                       /\ series[i].statistic = Some(statistics[i])
                                       /\ series[i].cells = << >>
                         /\ current_data_row_series_index' = 0
                /\ (~(event' = StartEvent("r", << >>) /\ IsSome(current_table))
                        /\ IsSome(current_data_row) /\ IsSome(current_data_row'))
                      => Len(Unwrap(current_data_row').data_row_series)
                             = Len(Unwrap(current_data_row).data_row_series)
                /\ (IsSome(current_table) /\ IsSome(current_table')
                        /\ event' .name # "table")
                      => IsPrefix(SeriesCounts(Unwrap(current_table)),
                                  SeriesCounts(Unwrap(current_table')))
                /\ \A k \in 1..Len(xtabml.tables) :
                       SeriesCounts(xtabml'.tables[k]) = SeriesCounts(xtabml.tables[k])
          ]_vars
    /\ [](\A table \in HeldTables : \A j \in 1..Len(table.data.rows) :
              SeriesCounts(table)[j] <= Len(table.statistics))

\* C31 witness: a returned table of two statistics whose row was opened
\* after the first statistic only, and holds one series with a cell.
C31_Witness ==
    /\ Returned
    /\ \E k \in 1..Len(xtabml.tables) :
           /\ Len(xtabml.tables[k].statistics) = 2
           /\ SeriesCounts(xtabml.tables[k]) = <<1>>
           /\ Len(xtabml.tables[k].data.rows[1].data_row_series[1].cells) = 1


\* C32: the close of a group read while an edge is in progress appends to
\* that edge, last, the group in progress with the elements and summaries
\* closed inside it: one group more in the edge for every group closed in
\* it, nested in another group or not.
C32_GroupCloseMovesGroupIntoEdge ==
    [][(/\ pc = "main"
        /\ event' = EndEvent("group")
        /\ IsSome(current_edge))
           => /\ IsSome(current_group)
              /\ IsSome(current_edge')
              /\ Unwrap(current_edge').groups =
                    Append(Unwrap(current_edge).groups, Unwrap(current_group))]_vars


\* C33: a step that does not fail appends the table in progress, last, to the
\* tables of the document when it is the main loop reading the close of a
\* table with a table in progress, and leaves the tables of the document as
\* they are otherwise; after the close of a table read by the main loop
\* no table is in progress, and a table comes to be in progress only by the
\* main loop reading the open of a table.
C33_TablesGrowAtTableCloseOnly ==
    [][(pc' # "done" \/ result' = "Ok")
          => /\ xtabml'.tables =
                   IF pc = "main" /\ event' = EndEvent("table")
                                  /\ IsSome(current_table)
                   THEN Append(xtabml.tables, Unwrap(current_table))
                   ELSE xtabml.tables
             /\ (pc = "main" /\ event' = EndEvent("table"))
                   => current_table' = None
             /\ (current_table = None /\ IsSome(current_table'))
                   => (pc = "main" /\ event' .kind = "Start"
                                   /\ event' .name = "table")]_vars

\* C33 witness: two tables were appended in the order of their closes, the
\* main loop has read a statistic declaration since, and no table is in
\* progress.
C33_Witness ==
    /\ pc = "main"
    /\ Len(xtabml.tables) = 2
    /\ xtabml.tables[1].name = Some("T")
    /\ xtabml.tables[2].name = Some("U")
    /\ event.kind = "Empty"
    /\ event.name = "statistic"
    /\ current_table = None


\* C34: every parse finishes with Ok or with an error of parse_bytes, and
\* reads no event and changes nothing once it has finished.
C34_EveryParseEndsInOkOrErr ==
    /\ <>(pc = "done" /\ result \in {"Ok", "XmlParse", "InvalidStructure"})
    /\ [][pc # "done"]_vars


C36_TitleWrittenOnce ==
    [][(/\ pc' # "done"
        /\ IsSome(current_table)
        /\ IsSome(current_table')
        /\ ~(pc = "main" /\ event' .kind = "Start" /\ event' .name = "table"))
           => LET title == Unwrap(current_table).title
              IN  Unwrap(current_table').title =
                     IF title = EmptyString /\ pc = "main"
                                            /\ event' = EndEvent("t")
                     THEN text_buffer
                     ELSE title]_vars

\* C36 witness: the table in progress has a title, and a text holder closed
\* since inside an element with text that went to the element's label.
C36_Witness ==
    /\ pc = "main"
    /\ event = EndEvent("t")
    /\ IsSome(current_table)
    /\ Unwrap(current_table).title = <<"a">>
    /\ IsSome(current_element)
    /\ Unwrap(current_element).text = <<"a">>


\* C37: end-of-input read by the main loop ends the parse with Ok and the
\* document as it was before the read, whatever table, edge, group, element,
\* data row or cell is in progress, so nothing in progress is in the
\* returned document; end-of-input read by the capture loop of a control
\* ends the parse with an InvalidStructure error.
C37_EofInMainLoopReturnsOk ==
    [][event' .kind = "Eof"
          => /\ pc' = "done"
             /\ IF pc = "main"
                THEN /\ result' = "Ok"
                     /\ xtabml' = xtabml
                ELSE result' = "InvalidStructure"]_vars

\* C37 witness: Ok was returned with a document without tables for an input
\* that ended inside a group of an edge of a table.
C37_Witness ==
    /\ Returned
    /\ event = EofEvent
    /\ open = <<"table", "edge", "group">>
    /\ xtabml.tables = << >>


\* the variants of XtabMLError
XtabMLError == {"XmlParse", "InvalidStructure", "MissingElement", "Io"}

\* C38: whenever the outcome of parse_bytes is an error, its kind is XmlParse
\* or InvalidStructure: never MissingElement, whatever the input, an input
\* without any element included, and never Io.
C38_ErrorsAreXmlParseOrInvalidStructure ==
    result \in XtabMLError => result \in {"XmlParse", "InvalidStructure"}

\* C38 witness: the parse of an input whose first element carries an
\* attribute value that is not UTF-8 has failed with InvalidStructure.
C38_Witness ==
    /\ pc = "done"
    /\ result = "InvalidStructure"
    /\ event.kind = "Start"
    /\ nread = 1

===========================================================================
